---- MODULE Spec2Model ----
(***************************************************************************)
(* Model of the `call` and `instantiate` commands of cargo-contract        *)
(* (crates/cargo-contract/src/cmd/call.rs and instantiate.rs).             *)
(*                                                                         *)
(* One command invocation is one run of `handle`.  The run is cut at its   *)
(* suspension points (the network round trips and the interactive          *)
(* prompt); every action is the code between two of them.  Everything the  *)
(* run does that is visible from outside (collaborator calls and printed   *)
(* lines) is appended, in program order, to `trace`.                       *)
(***************************************************************************)
EXTENDS Integers, Sequences, FiniteSets, TLC

\* ------------------------------------------------------------------ bounds
\* u64 weight components are drawn from 0..MaxGas (no arithmetic is done on
\* them, so the width plays no role).
MaxGas == 1

GasValues == 0..MaxGas

\* ------------------------------------------------------------ value types
\* Option<T>: None is the empty tuple, Some(v) the one-element tuple.
None == <<>>

Some(v) == <<v>>

is_some(o) == o /= <<>>

unwrap_or_else(o, d) == IF is_some(o) THEN o[1] ELSE d

OptGas == {None} \cup {Some(g) : g \in GasValues}

\* Result<T, E>
Ok(v) == [ok |-> TRUE, v |-> v]

Err(e) == [ok |-> FALSE, v |-> e]

\* sp_weights::Weight
Weight_from_parts(ref_time, proof_size) ==
    [ref_time |-> ref_time, proof_size |-> proof_size]

Weights == [ref_time : GasValues, proof_size : GasValues]

\* anyhow::Error carrying a message.  A message is a tuple of strings: a
\* plain text is a 1-tuple, a serialized object a longer one.
anyhow(msg) == [variant |-> "Anyhow", body |-> msg]

Msg(text) == <<text>>

MissingWeightMsg == Msg("Weight args --gas and --proof-size required if --skip-dry-run specified")

PreSubmitFailedMsg == Msg("Pre-submission dry-run failed. Use --skip-dry-run to skip this step.")

\* Dispatch failures the chain can answer a simulation with.
DispatchErrors == {"ContractTrapped", "OutOfGas"}

\* Code source of an instantiate request (contract_extrinsics::Code).
CodeSources == {"Upload", "Existing"}

\* Code hash of the existing code / of newly deployed code.
CodeHash == "0xc0de"

ContractAddress == "5Contract"

\* What the user types at the confirmation prompt.
Answers == {"y", "n"}

\* ------------------------------------------------------------------ state
VARIABLES
    cmd,        \* "Call" or "Instantiate"
    opts,       \* the parsed arguments of the command (immutable during the run)
    pc,         \* position of `handle`
    gas_limit,  \* Option<Weight>: the local `gas_limit` of `handle`
    trace,      \* collaborator calls and printed lines, in program order
    dry_run,    \* Option: the answer of the chain to the simulation of this run
    env,        \* what the collaborators answered to this run, one entry per step
    first,      \* Option: the record of an earlier run of the same request
    ret         \* Option<Result<(), ErrorVariant>>: what `handle` returned

vars == <<cmd, opts, pc, gas_limit, trace, dry_run, env, first, ret>>

\* One entry of the trace.
E(ev, arg) == [ev |-> ev, arg |-> arg]

Op(name) == E(name, <<>>)

\* name_value_println!(label, value, ...)
name_value_println(label, value) == E("println", <<label, value>>)

\* println!("{}", json)
println_json(doc) == E("println_json", <<doc>>)

SimulateOps == {"call_dry_run", "instantiate_dry_run"}

SubmitOps == {"call", "instantiate"}

NetworkOps == {"token_metadata_query", "connect"} \cup SimulateOps \cup SubmitOps

Count(evs) == Cardinality({i \in DOMAIN trace : trace[i].ev \in evs})

\* ErrorVariant: Module(decoded object) | Generic(message)
ErrorVariant_Module(err) == [variant |-> "Module", body |-> <<"decoded", err>>]

\* impl From<anyhow::Error> for ErrorVariant, applied by `?` in `handle`
ErrorVariant_from(e) ==
    IF e.variant = "Anyhow" THEN [variant |-> "Generic", body |-> e.body] ELSE e

\* format!("{:?}", bool)
fmt_bool(b) == IF b THEN "true" ELSE "false"

\* serde_json::to_string_pretty(&object)
to_string_pretty(object) == <<"json", object.variant>> \o object.body

\* ------------------------------------------------- collaborators (cmd/mod.rs)
\* What the chain answers to one simulation: execution Ok (with the reverted
\* flag of the return value) or a dispatch failure, and the required weight.
SimulationOutcome(is_ok, reverted, err, gas_required) ==
    [result |-> IF is_ok THEN Ok([reverted |-> reverted]) ELSE Err(err),
     gas_required |-> gas_required]

\* One entry of `env`: the answers that the step `step` of `handle` got.
Answer(step, fault, sim, answer, code_hash) ==
    [step |-> step, fault |-> fault, sim |-> sim, answer |-> answer,
     code_hash |-> code_hash]

\* The answer to a simulation as far as the run can see it: nothing if the
\* call was not made or failed in transport, else the execution result (the
\* reverted flag of an Ok, the dispatch failure of an Err) and gas_required.
SimulationAnswer(called, fault, is_ok, reverted, err, gas_required) ==
    IF ~called \/ fault = "transport" THEN <<>>
    ELSE IF is_ok THEN <<"Ok", fmt_bool(reverted), gas_required>>
    ELSE <<"Err", err, gas_required>>

\* The first fallible step that fails after the point where an action starts:
\* "transport" is the awaited network call, "decode" the decoder that is
\* used on its answer, "display" the serializer or printer of the report.
Faults == {"none", "transport", "decode", "display"}

\* ErrorVariant::from_dispatch_error(err, metadata)
from_dispatch_error(err, fault) ==
    [result |-> IF fault = "decode" THEN Err(anyhow(Msg("dispatch error decode failed")))
                ELSE Ok(ErrorVariant_Module(err)),
     events |-> <<E("from_dispatch_error", <<err>>)>>]

print_dry_running_status(name) == <<name_value_println("Dry-running", name)>>

print_gas_required_success(gas) == <<name_value_println("Gas required", gas)>>

display_dry_run_result_warning(what) == <<E("dry_run_result_warning", <<what>>)>>

\* display_contract_exec_result / display_contract_exec_result_debug
display_contract_exec_result(result, fault) ==
    [result |-> IF fault = "display" THEN Err(anyhow(Msg("display failed"))) ELSE Ok(<<>>),
     events |-> IF fault = "display" THEN <<>>
                ELSE <<E("contract_exec_result", <<result.gas_required>>)>>]

\* prompt_confirm_tx(show_details): shows the preview, reads the answer and
\* returns Err (cancelled) unless the user approves.
prompt_confirm_tx(show_details, answer) ==
    [result |-> IF answer = "y" THEN Ok(<<>>) ELSE Err(anyhow(Msg("Transaction not submitted"))),
     events |-> <<Op("prompt_confirm_tx")>> \o show_details \o <<E("answer", <<answer>>)>>]

\* ------------------------------------------------------------- call.rs
\* Variant: the report does not take the flag from the return value.
CallDryRunResult_unreverted(ret_val, result) ==
    [reverted |-> FALSE, gas_required |-> result.gas_required]

\* call.rs lines 139-145: the dry-run report built from the return value.
CallDryRunResult(ret_val, result) ==
    [reverted |-> ret_val.reverted, gas_required |-> result.gas_required]

\* CallDryRunResult::to_json
CallDryRunResult_to_json(r) ==
    [reverted |-> r.reverted, gas_required |-> r.gas_required]

\* CallDryRunResult::print
CallDryRunResult_print(r) ==
    << name_value_println("Result", "decoded"),
       name_value_println("Reverted", fmt_bool(r.reverted)) >>

\* Variant: a missing component defaults to zero instead of being an error.
call_skip_dry_run_weight_defaulting(o) ==
    Ok(Weight_from_parts(unwrap_or_else(o.gas_limit, 0),
                         unwrap_or_else(o.proof_size, 0)))

\* call.rs lines 219-226: the weight of the skip-dry-run path.
call_skip_dry_run_weight(o) ==
    IF is_some(o.gas_limit) /\ is_some(o.proof_size)
    THEN Ok(Weight_from_parts(o.gas_limit[1], o.proof_size[1]))
    ELSE Err(anyhow(MissingWeightMsg))

\* Variant: the explicit weight is used only when both components are given.
call_resolve_weight_all_or_nothing(o, gas_required) ==
    IF is_some(o.gas_limit) /\ is_some(o.proof_size)
    THEN Weight_from_parts(o.gas_limit[1], o.proof_size[1])
    ELSE gas_required

\* Variant: the estimate of the simulation is used whatever the user gave.
call_resolve_weight_estimated(o, gas_required) ==
    Weight_from_parts(gas_required.ref_time, gas_required.proof_size)

\* call.rs lines 238-244: user specified values where provided, otherwise the
\* estimates.
call_resolve_weight(o, gas_required) ==
    Weight_from_parts(unwrap_or_else(o.gas_limit, gas_required.ref_time),
                      unwrap_or_else(o.proof_size, gas_required.proof_size))

\* Variant: a simulation that fails is made a second time.
pre_submit_dry_run_gas_estimate_call_retrying(o, output_json, skip_dry_run, sim, fault) ==
    IF skip_dry_run THEN
        [result |-> call_skip_dry_run_weight(o), events |-> <<>>]
    ELSE IF fault = "transport" \/ ~sim.result.ok THEN
        [result |-> Err(anyhow(PreSubmitFailedMsg)),
         events |-> <<Op("call_dry_run"), Op("call_dry_run")>>]
    ELSE
        [result |-> Ok(call_resolve_weight(o, sim.gas_required)),
         events |-> <<Op("call_dry_run")>>]

\* Variant: the execution result of the simulation is not looked at.
pre_submit_dry_run_gas_estimate_call_unmatched(o, output_json, skip_dry_run, sim, fault) ==
    IF skip_dry_run THEN
        [result |-> call_skip_dry_run_weight(o), events |-> <<>>]
    ELSE IF fault = "transport" THEN
        [result |-> Err(anyhow(Msg("transport failure"))),
         events |-> <<Op("call_dry_run")>>]
    ELSE
        [result |-> Ok(call_resolve_weight(o, sim.gas_required)),
         events |-> <<Op("call_dry_run")>>]

\* Variant: the gas-required notice is printed before the execution result
\* of the simulation is matched.
pre_submit_dry_run_gas_estimate_call_noticing(o, output_json, skip_dry_run, sim, fault) ==
    IF skip_dry_run THEN
        [result |-> call_skip_dry_run_weight(o), events |-> <<>>]
    ELSE
    LET pre == (IF ~output_json THEN print_dry_running_status("message") ELSE <<>>)
               \o <<Op("call_dry_run")>>
        notice == IF ~output_json THEN print_gas_required_success(sim.gas_required)
                  ELSE <<>>
    IN  IF fault = "transport" THEN
            [result |-> Err(anyhow(Msg("transport failure"))), events |-> pre]
        ELSE IF sim.result.ok THEN
            [result |-> Ok(call_resolve_weight(o, sim.gas_required)),
             events |-> pre \o notice]
        ELSE
            [result |-> Err(anyhow(PreSubmitFailedMsg)),
             events |-> pre \o notice \o from_dispatch_error(sim.result.v, fault).events]

\* pre_submit_dry_run_gas_estimate_call: returns the Result<Weight> and what
\* it called and printed on the way.  `sim` is the answer of the chain to
\* call_dry_run (consulted only if the call is made and does not fail).
pre_submit_dry_run_gas_estimate_call(o, output_json, skip_dry_run, sim, fault) ==
    IF skip_dry_run THEN
        [result |-> call_skip_dry_run_weight(o), events |-> <<>>]
    ELSE
    LET pre == (IF ~output_json THEN print_dry_running_status("message") ELSE <<>>)
               \o <<Op("call_dry_run")>>
    IN  IF fault = "transport" THEN
            [result |-> Err(anyhow(Msg("transport failure"))), events |-> pre]
        ELSE IF sim.result.ok THEN
            [result |-> Ok(call_resolve_weight(o, sim.gas_required)),
             events |-> pre \o (IF ~output_json
                                THEN print_gas_required_success(sim.gas_required)
                                ELSE <<>>)]
        ELSE
        LET dec == from_dispatch_error(sim.result.v, fault)
            object == dec.result.v
            disp == display_contract_exec_result(sim, fault)
        IN  IF ~dec.result.ok THEN
                [result |-> dec.result, events |-> pre \o dec.events]
            ELSE IF output_json THEN
                [result |-> IF fault = "display"
                            THEN Err(anyhow(Msg("serialization failed")))
                            ELSE Err(anyhow(to_string_pretty(object))),
                 events |-> pre \o dec.events]
            ELSE
                [result |-> IF ~disp.result.ok THEN disp.result
                            ELSE Err(anyhow(PreSubmitFailedMsg)),
                 events |-> pre \o dec.events
                            \o <<name_value_println("Result", object)>>
                            \o disp.events]

\* Return from `handle` with `r`, having done `events`.
Return(r, events) ==
    /\ ret' = Some(r)
    /\ trace' = trace \o events
    /\ pc' = "done"
    /\ UNCHANGED <<cmd, opts, gas_limit>>

\* Variant: the branch condition without its negation.
call_dry_run_only_inverted(o) == o.execute

\* call.rs handle, line 125: `if !self.extrinsic_cli_opts.execute`
call_dry_run_only(o) == ~o.execute

\* call.rs handle, lines 98-99: the token metadata query.
CallQuery ==
    /\ cmd = "Call" /\ pc = "start"
    /\ UNCHANGED <<dry_run, first>>
    /\ \E fault \in {"none", "transport"} :
        (env' = Append(env, Answer("query", fault, <<>>, "-", <<>>))) /\
        IF fault = "transport"
        THEN Return(Err(ErrorVariant_from(anyhow(Msg("transport failure")))),
                    <<Op("token_metadata_query")>>)
        ELSE /\ pc' = "queried"
             /\ trace' = trace \o <<Op("token_metadata_query")>>
             /\ UNCHANGED <<cmd, opts, gas_limit, ret>>

\* call.rs handle, lines 101-123: signer, extrinsic options and the
\* CallCommandBuilder, whose done() connects the client.
CallBuild ==
    /\ cmd = "Call" /\ pc = "queried"
    /\ UNCHANGED <<dry_run, first>>
    /\ \E fault \in {"none", "transport"} :
        (env' = Append(env, Answer("build", fault, <<>>, "-", <<>>))) /\
        IF fault = "transport"
        THEN Return(Err(ErrorVariant_from(anyhow(Msg("transport failure")))),
                    <<Op("connect")>>)
        ELSE /\ pc' = "built"
             /\ trace' = trace \o <<Op("connect")>>
             /\ UNCHANGED <<cmd, opts, gas_limit, ret>>

\* call.rs handle, lines 125-165 and 208: the dry-run-only branch.
CallDryRun ==
    /\ cmd = "Call" /\ pc = "built" /\ call_dry_run_only(opts)
    /\ UNCHANGED first
    /\ \E is_ok \in BOOLEAN, reverted \in BOOLEAN, err \in DispatchErrors,
          gas_required \in Weights, fault \in Faults :
        LET result == SimulationOutcome(is_ok, reverted, err, gas_required)
            called == <<Op("call_dry_run")>>
        IN
        (env' = Append(env, Answer("simulate", fault,
                        SimulationAnswer(TRUE, fault, is_ok, reverted, err, gas_required),
                        "-", <<>>))) /\
        (dry_run' = IF fault = "transport" THEN dry_run ELSE Some(result)) /\
        IF fault = "transport" THEN
            Return(Err(ErrorVariant_from(anyhow(Msg("transport failure")))), called)
        ELSE IF result.result.ok THEN
            LET decoding == called \o <<Op("decode_message_return")>>
                dry_run_result == CallDryRunResult(result.result.v, result)
                disp == display_contract_exec_result(result, fault)
            IN  IF fault = "decode" THEN
                    Return(Err(ErrorVariant_from(anyhow(Msg("Failed to decode return value")))),
                           decoding)
                ELSE IF opts.output_json THEN
                    IF fault = "display"
                    THEN Return(Err(ErrorVariant_from(anyhow(Msg("serialization failed")))),
                                decoding)
                    ELSE Return(Ok(<<>>),
                                decoding \o <<println_json(CallDryRunResult_to_json(dry_run_result))>>)
                ELSE IF ~disp.result.ok THEN
                    Return(Err(ErrorVariant_from(disp.result.v)),
                           decoding \o CallDryRunResult_print(dry_run_result))
                ELSE
                    Return(Ok(<<>>),
                           decoding \o CallDryRunResult_print(dry_run_result)
                           \o disp.events \o display_dry_run_result_warning("message"))
        ELSE
            LET dec == from_dispatch_error(result.result.v, fault)
                object == dec.result.v
                disp == display_contract_exec_result(result, fault)
            IN  IF ~dec.result.ok THEN
                    Return(Err(ErrorVariant_from(dec.result.v)), called \o dec.events)
                ELSE IF opts.output_json THEN
                    Return(Err(object), called \o dec.events)
                ELSE IF ~disp.result.ok THEN
                    Return(Err(ErrorVariant_from(disp.result.v)),
                           called \o dec.events \o <<name_value_println("Result", object)>>)
                ELSE
                    \* falls out of the match to the Ok(()) of line 208
                    Return(Ok(<<>>),
                           called \o dec.events \o <<name_value_println("Result", object)>>
                           \o disp.events)

\* call.rs handle, lines 167-172: the gas estimator and the `?` on its result.
CallEstimate ==
    /\ cmd = "Call" /\ pc = "built" /\ ~call_dry_run_only(opts)
    /\ UNCHANGED first
    /\ \E is_ok \in BOOLEAN, reverted \in BOOLEAN, err \in DispatchErrors,
          gas_required \in Weights, fault \in Faults :
        LET sim == SimulationOutcome(is_ok, reverted, err, gas_required)
            est == pre_submit_dry_run_gas_estimate_call(
                       opts, opts.output_json, opts.skip_dry_run, sim, fault)
            events == <<Op("pre_submit_dry_run_gas_estimate")>> \o est.events
        IN  /\ env' = Append(env, Answer("simulate",
                        IF opts.skip_dry_run THEN "none" ELSE fault,
                        SimulationAnswer(~opts.skip_dry_run, fault, is_ok, reverted,
                                         err, gas_required),
                        "-", <<>>))
            /\ dry_run' = IF opts.skip_dry_run \/ fault = "transport"
                           THEN dry_run ELSE Some(sim)
            /\ IF ~est.result.ok
               THEN Return(Err(ErrorVariant_from(est.result.v)), events)
               ELSE /\ gas_limit' = Some(est.result.v)
                    /\ trace' = trace \o events
                    /\ pc' = "estimated"
                    /\ UNCHANGED <<cmd, opts, ret>>

\* Variant: the result of the gate is dropped (no `?`).
CallConfirm_unchecked ==
    /\ cmd = "Call" /\ pc = "estimated" /\ ~opts.skip_confirm
    /\ UNCHANGED <<dry_run, first>>
    /\ \E answer \in Answers :
        LET preview == << name_value_println("Message", "message"),
                          name_value_println("Args", "args"),
                          name_value_println("Gas limit", gas_limit[1]) >>
            gate == prompt_confirm_tx(preview, answer)
        IN  /\ env' = Append(env, Answer("confirm", "none", <<>>, answer, <<>>))
            /\ trace' = trace \o gate.events
            /\ pc' = "confirmed"
            /\ UNCHANGED <<cmd, opts, gas_limit, ret>>

\* call.rs handle, lines 173-191: the confirmation gate and the `?` on it.
CallConfirm ==
    /\ cmd = "Call" /\ pc = "estimated" /\ ~opts.skip_confirm
    /\ UNCHANGED <<dry_run, first>>
    /\ \E answer \in Answers :
        LET preview == << name_value_println("Message", "message"),
                          name_value_println("Args", "args"),
                          name_value_println("Gas limit", gas_limit[1]) >>
            gate == prompt_confirm_tx(preview, answer)
        IN  (env' = Append(env, Answer("confirm", "none", <<>>, answer, <<>>))) /\
            IF ~gate.result.ok
            THEN Return(Err(ErrorVariant_from(gate.result.v)), gate.events)
            ELSE /\ trace' = trace \o gate.events
                 /\ pc' = "confirmed"
                 /\ UNCHANGED <<cmd, opts, gas_limit, ret>>

\* Variant: the error of a failed submission is handed to the dispatch-error
\* decoder and rendered.
CallSubmit_decoding ==
    /\ cmd = "Call"
    /\ \/ pc = "estimated" /\ opts.skip_confirm
       \/ pc = "confirmed"
    /\ UNCHANGED <<dry_run, first>>
    /\ \E fault \in Faults :
        LET called == <<E("call", <<Some(gas_limit[1])>>)>>
            decoded == called \o <<Op("from_events")>>
            dec == from_dispatch_error("OutOfGas", "none")
        IN  (env' = Append(env, Answer("submit", fault, <<>>, "-", <<>>))) /\
            IF fault = "transport" THEN
                Return(Err(ErrorVariant_from(anyhow(Msg("submission failed")))),
                       called \o dec.events
                       \o <<name_value_println("Result", dec.result.v)>>)
            ELSE IF fault \in {"decode", "display"} THEN
                Return(Err(ErrorVariant_from(anyhow(Msg("event decoding failed")))), decoded)
            ELSE IF opts.output_json THEN
                Return(Ok(<<>>), decoded \o <<println_json([events |-> "events"])>>)
            ELSE
                Return(Ok(<<>>), decoded \o <<name_value_println("Events", "events")>>)

\* call.rs handle, lines 192-208: submission and the rendering of its events.
CallSubmit ==
    /\ cmd = "Call"
    /\ \/ pc = "estimated" /\ opts.skip_confirm
       \/ pc = "confirmed"
    /\ UNCHANGED <<dry_run, first>>
    /\ \E fault \in Faults :
        LET called == <<E("call", <<Some(gas_limit[1])>>)>>
            decoded == called \o <<Op("from_events")>>
        IN  (env' = Append(env, Answer("submit", fault, <<>>, "-", <<>>))) /\
            IF fault = "transport" THEN
                Return(Err(ErrorVariant_from(anyhow(Msg("submission failed")))), called)
            ELSE IF fault = "decode" THEN
                Return(Err(ErrorVariant_from(anyhow(Msg("event decoding failed")))), decoded)
            ELSE IF fault = "display" THEN
                Return(Err(ErrorVariant_from(anyhow(Msg("event rendering failed")))), decoded)
            ELSE IF opts.output_json THEN
                Return(Ok(<<>>), decoded \o <<println_json([events |-> "events"])>>)
            ELSE
                Return(Ok(<<>>), decoded \o <<name_value_println("Events", "events")>>)

\* -------------------------------------------------------- instantiate.rs
\* InstantiateExec::decode_instantiate_dry_run: the dry-run report of an
\* execution that is Ok, the decoded dispatch error of one that is Err.
decode_instantiate_dry_run(result, fault) ==
    IF result.result.ok THEN
        [result |-> IF fault = "decode"
                    THEN Err(ErrorVariant_from(anyhow(Msg("Failed to decode return value"))))
                    ELSE Ok([reverted |-> result.result.v.reverted,
                             contract |-> ContractAddress,
                             gas_required |-> result.gas_required]),
         events |-> <<Op("decode_instantiate_dry_run")>>]
    ELSE
        LET dec == from_dispatch_error(result.result.v, fault)
        IN  [result |-> IF dec.result.ok THEN Err(dec.result.v)
                        ELSE Err(ErrorVariant_from(dec.result.v)),
             events |-> <<Op("decode_instantiate_dry_run")>> \o dec.events]

\* InstantiateDryRunResult::to_json
InstantiateDryRunResult_to_json(r) ==
    [reverted |-> r.reverted, contract |-> r.contract, gas_required |-> r.gas_required]

\* print_instantiate_dry_run_result
print_instantiate_dry_run_result(r) ==
    << name_value_println("Result", "decoded"),
       name_value_println("Reverted", fmt_bool(r.reverted)),
       name_value_println("Contract", r.contract),
       name_value_println("Gas consumed", "gas_consumed") >>

\* print_default_instantiate_preview
print_default_instantiate_preview(gas) ==
    << name_value_println("Constructor", "constructor"),
       name_value_println("Args", "args"),
       name_value_println("Gas limit", gas) >>

\* Variant: the code hash is left out of the document.
InstantiateResult_to_json_without_hash(code_hash, contract, events) ==
    IF is_some(contract) THEN [contract |-> contract[1], events |-> events]
    ELSE [events |-> events]

\* InstantiateResult (serde: absent optional fields are skipped) and to_json
InstantiateResult_to_json(code_hash, contract, events) ==
    IF is_some(code_hash) /\ is_some(contract)
        THEN [contract |-> contract[1], code_hash |-> code_hash[1], events |-> events]
    ELSE IF is_some(contract) THEN [contract |-> contract[1], events |-> events]
    ELSE IF is_some(code_hash) THEN [code_hash |-> code_hash[1], events |-> events]
    ELSE [events |-> events]

\* display_result: renders the result of a successful submission.
display_result(exec_result, output_json, fault) ==
    LET decoded == <<Op("from_events")>>
        contract_address == exec_result.contract_address
    IN  IF fault = "decode" THEN
            [result |-> Err(ErrorVariant_from(anyhow(Msg("event decoding failed")))),
             events |-> decoded]
        ELSE IF fault = "display" THEN
            [result |-> Err(ErrorVariant_from(anyhow(Msg("event rendering failed")))),
             events |-> decoded]
        ELSE IF output_json THEN
            [result |-> Ok(<<>>),
             events |-> decoded \o <<println_json(InstantiateResult_to_json(
                            exec_result.code_hash, Some(contract_address), "events"))>>]
        ELSE
            [result |-> Ok(<<>>),
             events |-> decoded \o <<name_value_println("Events", "events")>>
                        \o (IF is_some(exec_result.code_hash)
                            THEN <<name_value_println("Code hash", exec_result.code_hash[1])>>
                            ELSE <<>>)
                        \o <<name_value_println("Contract", contract_address)>>]

\* instantiate.rs lines 205-212: the weight of the skip-dry-run path.
instantiate_skip_dry_run_weight(o) ==
    IF is_some(o.gas_limit) /\ is_some(o.proof_size)
    THEN Ok(Weight_from_parts(o.gas_limit[1], o.proof_size[1]))
    ELSE Err(anyhow(MissingWeightMsg))

\* instantiate.rs lines 224-232: user specified values where provided, otherwise the
\* estimates.
instantiate_resolve_weight(o, gas_required) ==
    Weight_from_parts(unwrap_or_else(o.gas_limit, gas_required.ref_time),
                      unwrap_or_else(o.proof_size, gas_required.proof_size))

\* Variant: an execution that is Ok but reverted counts as a failed dry run.
pre_submit_dry_run_gas_estimate_instantiate_reverting(o, output_json, skip_dry_run, sim, fault) ==
    IF skip_dry_run THEN
        [result |-> instantiate_skip_dry_run_weight(o), events |-> <<>>]
    ELSE
    LET pre == (IF ~output_json THEN print_dry_running_status("constructor") ELSE <<>>)
               \o <<Op("instantiate_dry_run")>>
    IN  IF fault = "transport" THEN
            [result |-> Err(anyhow(Msg("transport failure"))), events |-> pre]
        ELSE IF sim.result.ok /\ ~sim.result.v.reverted THEN
            [result |-> Ok(instantiate_resolve_weight(o, sim.gas_required)),
             events |-> pre \o (IF ~output_json
                                THEN print_gas_required_success(sim.gas_required)
                                ELSE <<>>)]
        ELSE
            [result |-> Err(anyhow(PreSubmitFailedMsg)), events |-> pre]

\* pre_submit_dry_run_gas_estimate_instantiate
pre_submit_dry_run_gas_estimate_instantiate(o, output_json, skip_dry_run, sim, fault) ==
    IF skip_dry_run THEN
        [result |-> instantiate_skip_dry_run_weight(o), events |-> <<>>]
    ELSE
    LET pre == (IF ~output_json THEN print_dry_running_status("constructor") ELSE <<>>)
               \o <<Op("instantiate_dry_run")>>
    IN  IF fault = "transport" THEN
            [result |-> Err(anyhow(Msg("transport failure"))), events |-> pre]
        ELSE IF sim.result.ok THEN
            [result |-> Ok(instantiate_resolve_weight(o, sim.gas_required)),
             events |-> pre \o (IF ~output_json
                                THEN print_gas_required_success(sim.gas_required)
                                ELSE <<>>)]
        ELSE
        LET dec == from_dispatch_error(sim.result.v, fault)
            object == dec.result.v
            disp == display_contract_exec_result(sim, fault)
        IN  IF ~dec.result.ok THEN
                [result |-> dec.result, events |-> pre \o dec.events]
            ELSE IF output_json THEN
                [result |-> IF fault = "display"
                            THEN Err(anyhow(Msg("serialization failed")))
                            ELSE Err(anyhow(to_string_pretty(object))),
                 events |-> pre \o dec.events]
            ELSE
                [result |-> IF ~disp.result.ok THEN disp.result
                            ELSE Err(anyhow(PreSubmitFailedMsg)),
                 events |-> pre \o dec.events
                            \o <<name_value_println("Result", object)>>
                            \o disp.events]

\* Variant: skip-dry-run also takes the run off the dry-run-only branch.
instantiate_dry_run_only_unless_skipped(o) == ~o.execute /\ ~o.skip_dry_run

\* instantiate.rs handle, line 136: `if !self.extrinsic_cli_opts.execute`
instantiate_dry_run_only(o) == ~o.execute

\* instantiate.rs handle, lines 106-107: the token metadata query.
InstantiateQuery ==
    /\ cmd = "Instantiate" /\ pc = "start"
    /\ UNCHANGED <<dry_run, first>>
    /\ \E fault \in {"none", "transport"} :
        (env' = Append(env, Answer("query", fault, <<>>, "-", <<>>))) /\
        IF fault = "transport"
        THEN Return(Err(ErrorVariant_from(anyhow(Msg("transport failure")))),
                    <<Op("token_metadata_query")>>)
        ELSE /\ pc' = "queried"
             /\ trace' = trace \o <<Op("token_metadata_query")>>
             /\ UNCHANGED <<cmd, opts, gas_limit, ret>>

\* instantiate.rs handle, lines 109-134: signer, extrinsic options and the
\* InstantiateCommandBuilder, whose done() connects the client.
InstantiateBuild ==
    /\ cmd = "Instantiate" /\ pc = "queried"
    /\ UNCHANGED <<dry_run, first>>
    /\ \E fault \in {"none", "transport"} :
        (env' = Append(env, Answer("build", fault, <<>>, "-", <<>>))) /\
        IF fault = "transport"
        THEN Return(Err(ErrorVariant_from(anyhow(Msg("transport failure")))),
                    <<Op("connect")>>)
        ELSE /\ pc' = "built"
             /\ trace' = trace \o <<Op("connect")>>
             /\ UNCHANGED <<cmd, opts, gas_limit, ret>>

\* instantiate.rs handle, lines 136-160: the dry-run-only branch.
InstantiateDryRun ==
    /\ cmd = "Instantiate" /\ pc = "built" /\ instantiate_dry_run_only(opts)
    /\ UNCHANGED first
    /\ \E is_ok \in BOOLEAN, reverted \in BOOLEAN, err \in DispatchErrors,
          gas_required \in Weights, fault \in Faults :
        LET result == SimulationOutcome(is_ok, reverted, err, gas_required)
            called == <<Op("instantiate_dry_run")>>
            dec == decode_instantiate_dry_run(result, fault)
            decoding == called \o dec.events
            disp == display_contract_exec_result(result, fault)
        IN
        (env' = Append(env, Answer("simulate", fault,
                        SimulationAnswer(TRUE, fault, is_ok, reverted, err, gas_required),
                        "-", <<>>))) /\
        (dry_run' = IF fault = "transport" THEN dry_run ELSE Some(result)) /\
        IF fault = "transport" THEN
            Return(Err(ErrorVariant_from(anyhow(Msg("transport failure")))), called)
        ELSE IF dec.result.ok THEN
            LET dry_run_result == dec.result.v
            IN  IF opts.output_json THEN
                    IF fault = "display"
                    THEN Return(Err(ErrorVariant_from(anyhow(Msg("serialization failed")))),
                                decoding)
                    ELSE Return(Ok(<<>>),
                                decoding \o <<println_json(
                                    InstantiateDryRunResult_to_json(dry_run_result))>>)
                ELSE IF ~disp.result.ok THEN
                    Return(Err(ErrorVariant_from(disp.result.v)),
                           decoding \o print_instantiate_dry_run_result(dry_run_result))
                ELSE
                    Return(Ok(<<>>),
                           decoding \o print_instantiate_dry_run_result(dry_run_result)
                           \o disp.events \o display_dry_run_result_warning("instantiate"))
        ELSE
            LET object == dec.result.v
            IN  IF opts.output_json THEN
                    Return(Err(object), decoding)
                ELSE IF ~disp.result.ok THEN
                    Return(Err(ErrorVariant_from(disp.result.v)),
                           decoding \o <<name_value_println("Result", object)>>)
                ELSE
                    Return(Err(object),
                           decoding \o <<name_value_println("Result", object)>>
                           \o disp.events)

\* instantiate.rs handle, lines 162-168: the gas estimator and the `?` on it.
InstantiateEstimate ==
    /\ cmd = "Instantiate" /\ pc = "built" /\ ~instantiate_dry_run_only(opts)
    /\ UNCHANGED first
    /\ \E is_ok \in BOOLEAN, reverted \in BOOLEAN, err \in DispatchErrors,
          gas_required \in Weights, fault \in Faults :
        LET sim == SimulationOutcome(is_ok, reverted, err, gas_required)
            est == pre_submit_dry_run_gas_estimate_instantiate(
                       opts, opts.output_json, opts.skip_dry_run, sim, fault)
            events == <<Op("pre_submit_dry_run_gas_estimate")>> \o est.events
        IN  /\ env' = Append(env, Answer("simulate",
                        IF opts.skip_dry_run THEN "none" ELSE fault,
                        SimulationAnswer(~opts.skip_dry_run, fault, is_ok, reverted,
                                         err, gas_required),
                        "-", <<>>))
            /\ dry_run' = IF opts.skip_dry_run \/ fault = "transport"
                           THEN dry_run ELSE Some(sim)
            /\ IF ~est.result.ok
               THEN Return(Err(ErrorVariant_from(est.result.v)), events)
               ELSE /\ gas_limit' = Some(est.result.v)
                    /\ trace' = trace \o events
                    /\ pc' = "estimated"
                    /\ UNCHANGED <<cmd, opts, ret>>

\* Variant: the preview shows the code hash whatever the code source is.
InstantiateConfirm_hashing ==
    /\ cmd = "Instantiate" /\ pc = "estimated" /\ ~opts.skip_confirm
    /\ UNCHANGED <<dry_run, first>>
    /\ \E answer \in Answers :
        LET preview == print_default_instantiate_preview(gas_limit[1])
                       \o <<name_value_println("Code hash", CodeHash)>>
            gate == prompt_confirm_tx(preview, answer)
        IN  (env' = Append(env, Answer("confirm", "none", <<>>, answer, <<>>))) /\
            IF ~gate.result.ok
            THEN Return(Err(ErrorVariant_from(gate.result.v)), gate.events)
            ELSE /\ trace' = trace \o gate.events
                 /\ pc' = "confirmed"
                 /\ UNCHANGED <<cmd, opts, gas_limit, ret>>

\* instantiate.rs handle, lines 169-182: the confirmation gate and the `?`.
InstantiateConfirm ==
    /\ cmd = "Instantiate" /\ pc = "estimated" /\ ~opts.skip_confirm
    /\ UNCHANGED <<dry_run, first>>
    /\ \E answer \in Answers :
        LET preview == print_default_instantiate_preview(gas_limit[1])
                       \o (IF opts.code = "Existing"
                           THEN <<name_value_println("Code hash", CodeHash)>>
                           ELSE <<>>)
            gate == prompt_confirm_tx(preview, answer)
        IN  (env' = Append(env, Answer("confirm", "none", <<>>, answer, <<>>))) /\
            IF ~gate.result.ok
            THEN Return(Err(ErrorVariant_from(gate.result.v)), gate.events)
            ELSE /\ trace' = trace \o gate.events
                 /\ pc' = "confirmed"
                 /\ UNCHANGED <<cmd, opts, gas_limit, ret>>

\* InstantiateExec::instantiate: the code hashes a submission result can
\* carry.  A hash is reported only when new code was deployed, never when the
\* code source is an existing code hash.
instantiate_code_hashes(code) ==
    IF code = "Existing" THEN {None} ELSE {None, Some(CodeHash)}

\* Variant: the submission is made without the resolved weight.
InstantiateSubmit_unresolved ==
    /\ cmd = "Instantiate"
    /\ \/ pc = "estimated" /\ opts.skip_confirm
       \/ pc = "confirmed"
    /\ UNCHANGED <<dry_run, first>>
    /\ \E fault \in Faults, code_hash \in instantiate_code_hashes(opts.code) :
        LET called == <<E("instantiate", <<None>>)>>
            instantiate_result == [contract_address |-> ContractAddress,
                                   code_hash |-> code_hash]
            returned == called \o <<E("instantiate_result",
                                      <<code_hash, ContractAddress>>)>>
            shown == display_result(instantiate_result, opts.output_json, fault)
        IN  (env' = Append(env, Answer("submit", fault, <<>>, "-", code_hash))) /\
            IF fault = "transport" THEN
                Return(Err(ErrorVariant_from(anyhow(Msg("submission failed")))), called)
            ELSE IF ~shown.result.ok THEN
                Return(shown.result, returned \o shown.events)
            ELSE
                Return(Ok(<<>>), returned \o shown.events)

\* instantiate.rs handle, lines 183-193: submission and display_result.
InstantiateSubmit ==
    /\ cmd = "Instantiate"
    /\ \/ pc = "estimated" /\ opts.skip_confirm
       \/ pc = "confirmed"
    /\ UNCHANGED <<dry_run, first>>
    /\ \E fault \in Faults, code_hash \in instantiate_code_hashes(opts.code) :
        LET called == <<E("instantiate", <<Some(gas_limit[1])>>)>>
            instantiate_result == [contract_address |-> ContractAddress,
                                   code_hash |-> code_hash]
            returned == called \o <<E("instantiate_result",
                                      <<code_hash, ContractAddress>>)>>
            shown == display_result(instantiate_result, opts.output_json, fault)
        IN  (env' = Append(env, Answer("submit", fault, <<>>, "-", code_hash))) /\
            IF fault = "transport" THEN
                Return(Err(ErrorVariant_from(anyhow(Msg("submission failed")))), called)
            ELSE IF ~shown.result.ok THEN
                Return(shown.result, returned \o shown.events)
            ELSE
                Return(Ok(<<>>), returned \o shown.events)

\* ------------------------------------------------------ the specification
\* The arguments a command can be started with.
Requests ==
    [execute : BOOLEAN, skip_dry_run : BOOLEAN, skip_confirm : BOOLEAN,
     output_json : BOOLEAN, gas_limit : OptGas, proof_size : OptGas,
     code : CodeSources]

Init ==
    /\ cmd \in {"Call", "Instantiate"}
    /\ opts \in Requests
    /\ cmd = "Call" => opts.code = "Upload"
    /\ pc = "start"
    /\ gas_limit = None
    /\ trace = <<>>
    /\ dry_run = None
    /\ env = <<>>
    /\ first = None
    /\ ret = None

Next ==
    \/ CallQuery
    \/ CallBuild
    \/ CallDryRun
    \/ CallEstimate
    \/ CallConfirm
    \/ CallSubmit
    \/ InstantiateQuery
    \/ InstantiateBuild
    \/ InstantiateDryRun
    \/ InstantiateEstimate
    \/ InstantiateConfirm
    \/ InstantiateSubmit

Spec == Init /\ [][Next]_vars

\* What a finished run did to its collaborators and how it ended: the
\* simulate, confirm and submit calls in order, the weight `handle` resolved,
\* and whether `handle` returned Ok.
IsCollaboratorCall(e) ==
    e.ev \in SimulateOps \cup SubmitOps \cup {"prompt_confirm_tx"}

CollaboratorCalls ==
    LET calls == SelectSeq(trace, IsCollaboratorCall)
    IN  [i \in DOMAIN calls |-> calls[i].ev]

RunRecord ==
    [env |-> env, calls |-> CollaboratorCalls, weight |-> gas_limit,
     ok |-> ret[1].ok]

\* The same command is invoked a second time on the same request, with only
\* the output mode changed.
Rerun ==
    /\ pc = "done" /\ first = None
    /\ first' = Some(RunRecord)
    /\ opts' = [opts EXCEPT !.output_json = ~opts.output_json]
    /\ pc' = "start"
    /\ gas_limit' = None
    /\ trace' = <<>>
    /\ dry_run' = None
    /\ env' = <<>>
    /\ ret' = None
    /\ UNCHANGED cmd

\* The collaborators answered this run as they answered the earlier one, as
\* far as both runs went.
SameAnswers ==
    \A k \in DOMAIN env : k \in DOMAIN first[1].env => env[k] = first[1].env[k]

\* In the second invocation the collaborators answer as in the first.
NextPair ==
    \/ Next /\ (first = None \/ SameAnswers')
    \/ Rerun

\* Two invocations in a row.
SpecPair == Init /\ [][NextPair]_vars

\* ------------------------------------------------------------ properties
Failed == is_some(ret) /\ ~ret[1].ok

Succeeded == is_some(ret) /\ ret[1].ok

\* The simulation of this run returned a dispatch failure.
SimulationFailed == is_some(dry_run) /\ ~dry_run[1].result.ok

\* The user answered the confirmation gate with something else than yes.
Declined ==
    \E i \in DOMAIN trace : trace[i].ev = "answer" /\ trace[i].arg[1] /= "y"

\* `handle` returned the generic error with message `msg`.
FailedWith(msg) ==
    Failed /\ ret[1].v.variant = "Generic" /\ ret[1].v.body = msg

MissingExplicitWeight ==
    opts.execute /\ opts.skip_dry_run
    /\ (~is_some(opts.gas_limit) \/ ~is_some(opts.proof_size))

\* A result of a submission was decoded or printed.
RenderedSubmission ==
    \E i \in DOMAIN trace :
        \/ trace[i].ev \in {"from_events", "println_json"}
        \/ trace[i].ev = "println" /\ trace[i].arg[1] \in {"Events", "Contract"}

\* The dry-run report that was printed shows `reverted` as b.
ReportedReverted(b) ==
    \E i \in DOMAIN trace :
        \/ trace[i].ev = "println_json" /\ trace[i].arg[1].reverted = b
        \/ trace[i].ev = "println" /\ trace[i].arg[1] = "Reverted"
           /\ trace[i].arg[2] = fmt_bool(b)

\* C1: on the execute path without skip-dry-run, once the simulation has
\* returned a dispatch failure the run is terminated with an error, and the
\* confirmation gate and the submit operation have not been invoked; for
\* both commands and all output modes, skip-confirm flags and explicit weights.
C1_FailedSimulationAborts ==
    (opts.execute /\ ~opts.skip_dry_run /\ SimulationFailed) =>
        /\ pc = "done"
        /\ Failed
        /\ Count({"prompt_confirm_tx"}) = 0
        /\ Count(SubmitOps) = 0

C1_Witness ==
    /\ cmd = "Instantiate" /\ opts.execute /\ ~opts.skip_dry_run
    /\ opts.skip_confirm /\ opts.output_json
    /\ is_some(opts.gas_limit) /\ is_some(opts.proof_size)
    /\ SimulationFailed /\ pc = "done"

\* C2: with execute and skip-dry-run set and the explicit gas or the explicit
\* proof size absent, no simulation, confirmation or submission is ever made,
\* and once the estimator has been invoked the run has ended with the
\* missing-explicit-weight error; for both commands.
C2_MissingWeightFails ==
    MissingExplicitWeight =>
        /\ Count(SimulateOps) = 0
        /\ dry_run = None
        /\ Count({"prompt_confirm_tx"}) = 0
        /\ Count(SubmitOps) = 0
        /\ gas_limit = None
        /\ Count({"pre_submit_dry_run_gas_estimate"}) > 0 =>
              (pc = "done" /\ FailedWith(MissingWeightMsg))

C2_Witness ==
    /\ cmd = "Call" /\ opts.execute /\ opts.skip_dry_run
    /\ is_some(opts.gas_limit) /\ ~is_some(opts.proof_size)
    /\ Count({"pre_submit_dry_run_gas_estimate"}) = 1
    /\ FailedWith(MissingWeightMsg)

\* C3: when the command has failed with the missing-explicit-weight error,
\* no network call at all has been made (no token metadata query, no client
\* connection, no simulation, no submission).
C3_MissingWeightBeforeNetwork ==
    FailedWith(MissingWeightMsg) => Count(NetworkOps) = 0

\* C4: when the pre-submission simulation succeeded with gas_required (t, p),
\* each component of the resolved weight is the explicit value if the user
\* gave one and the component of gas_required otherwise, independently of the
\* other component; for both commands.
C4_PerAxisOverride ==
    (is_some(gas_limit) /\ is_some(dry_run)) =>
        /\ dry_run[1].result.ok
        /\ gas_limit[1].ref_time =
              IF is_some(opts.gas_limit) THEN opts.gas_limit[1]
              ELSE dry_run[1].gas_required.ref_time
        /\ gas_limit[1].proof_size =
              IF is_some(opts.proof_size) THEN opts.proof_size[1]
              ELSE dry_run[1].gas_required.proof_size

C4_Witness ==
    /\ pc = "estimated" /\ is_some(dry_run)
    /\ opts.gas_limit = Some(1) /\ opts.proof_size = None
    /\ dry_run[1].gas_required = Weight_from_parts(0, 0)
    /\ gas_limit = Some(Weight_from_parts(1, 0))

\* C5: once the user has declined the confirmation gate the run is over, the
\* submit operation has not been invoked and no submission result has been
\* decoded or printed; for both commands and both output modes.
C5_DeclineNeverSubmits ==
    Declined =>
        /\ pc = "done"
        /\ Count(SubmitOps) = 0
        /\ ~RenderedSubmission

C5_Witness ==
    /\ cmd = "Instantiate" /\ opts.output_json /\ ~opts.skip_confirm
    /\ Declined /\ pc = "done"

\* C6: a run that ended because the user declined the confirmation gate did
\* not return an error from `handle`.
C6_DeclineIsNotAnError ==
    (Declined /\ pc = "done") => ~Failed

\* C7: on the dry-run-only path a run whose simulation returned a dispatch
\* failure ends with `handle` returning an error, in both output modes and
\* for both commands.
C7_DryRunFailureIsError ==
    (~opts.execute /\ SimulationFailed /\ pc = "done") => Failed

\* C8: on the dry-run-only path a simulation whose execution is Ok is never
\* turned into an error because of its reverted flag: the run either succeeds
\* having printed the report with exactly that flag (true for a reverted
\* execution), or fails with the error of the return value decoder or of the
\* report printer; in both output modes.
C8_RevertIsNotAnError ==
    (~opts.execute /\ pc = "done" /\ is_some(dry_run) /\ dry_run[1].result.ok) =>
        \/ /\ Succeeded
           /\ ReportedReverted(dry_run[1].result.v.reverted)
           /\ ~ReportedReverted(~dry_run[1].result.v.reverted)
        \/ FailedWith(Msg("Failed to decode return value"))
        \/ FailedWith(Msg("serialization failed"))
        \/ FailedWith(Msg("display failed"))

C8_Witness ==
    /\ cmd = "Call" /\ ~opts.execute /\ pc = "done"
    /\ is_some(dry_run) /\ dry_run[1].result.ok /\ dry_run[1].result.v.reverted
    /\ Succeeded /\ ReportedReverted(TRUE)

\* C9: in JSON mode, when the simulation returned a dispatch failure that was
\* decoded, the error `handle` returns is the decoded object itself, on the
\* execute path as on the dry-run-only path.
C9_JsonDispatchErrorIsObject ==
    (/\ opts.output_json /\ SimulationFailed /\ pc = "done"
     /\ ~FailedWith(Msg("dispatch error decode failed"))
     /\ ~FailedWith(Msg("serialization failed")))
    => /\ Failed
       /\ ret[1].v = ErrorVariant_Module(dry_run[1].result.v)

\* C10: with the execute flag unset the estimator, the confirmation gate and
\* the submit operation are never invoked and no weight is resolved; at most
\* one simulation is made, and a finished run made none only if the token
\* metadata query or the request build failed.
C10_DryRunOnlySimulatesOnce ==
    ~opts.execute =>
        /\ Count({"pre_submit_dry_run_gas_estimate", "prompt_confirm_tx"}) = 0
        /\ Count(SubmitOps) = 0
        /\ gas_limit = None
        /\ Count(SimulateOps) <= 1
        /\ (pc = "done" /\ Count(SimulateOps) = 0) =>
              (FailedWith(Msg("transport failure")) /\ Len(trace) <= 2)

C10_Witness ==
    /\ cmd = "Instantiate" /\ ~opts.execute /\ ~opts.output_json
    /\ opts.skip_dry_run /\ opts.skip_confirm
    /\ pc = "done" /\ Count(SimulateOps) = 1 /\ SimulationFailed

\* The result of the successful instantiate submission is entry i of the trace.
IsInstantiateResult(i) == trace[i].ev = "instantiate_result"

\* After entry i a human line `label: value` was printed.
PrintedAfter(i, label) ==
    \E j \in DOMAIN trace :
        j > i /\ trace[j].ev = "println" /\ trace[j].arg[1] = label

PrintedValueAfter(i, label, value) ==
    \E j \in DOMAIN trace :
        j > i /\ trace[j].ev = "println" /\ trace[j].arg[1] = label
        /\ trace[j].arg[2] = value

\* After entry i a JSON document satisfying the rule of C11 was printed.
JsonResultAfter(i) ==
    \E j \in DOMAIN trace :
        /\ j > i /\ trace[j].ev = "println_json"
        /\ LET doc == trace[j].arg[1]
               code_hash == trace[i].arg[1]
           IN  /\ ("code_hash" \in DOMAIN doc) <=> is_some(code_hash)
               /\ is_some(code_hash) => doc.code_hash = code_hash[1]
               /\ "contract" \in DOMAIN doc
               /\ doc.contract = trace[i].arg[2]

\* C11: after a successful instantiate submission the rendered result shows
\* the code hash if and only if the submission result carries one (it carries
\* none when the code source is an existing code hash) and always shows the
\* contract address of the submission result; in the JSON document an absent
\* code hash is an absent field, and the human rendering follows the same rule.
C11_InstantiateResultFields ==
    (cmd = "Instantiate" /\ pc = "done" /\ Succeeded /\ opts.execute) =>
        \E i \in DOMAIN trace :
            /\ IsInstantiateResult(i)
            /\ opts.code = "Existing" => ~is_some(trace[i].arg[1])
            /\ IF opts.output_json
               THEN JsonResultAfter(i)
               ELSE /\ PrintedAfter(i, "Code hash") <=> is_some(trace[i].arg[1])
                    /\ is_some(trace[i].arg[1]) =>
                          PrintedValueAfter(i, "Code hash", trace[i].arg[1][1])
                    /\ PrintedValueAfter(i, "Contract", trace[i].arg[2])

C11_Witness ==
    /\ cmd = "Instantiate" /\ pc = "done" /\ Succeeded /\ opts.execute
    /\ opts.output_json /\ opts.code = "Upload"
    /\ \E i \in DOMAIN trace :
          IsInstantiateResult(i) /\ is_some(trace[i].arg[1]) /\ JsonResultAfter(i)

\* The user approved at the confirmation gate.
Approved ==
    \E i \in DOMAIN trace : trace[i].ev = "answer" /\ trace[i].arg[1] = "y"

\* Entry g of the trace is an invocation of the gate that the user approved,
\* made after the estimator was invoked.
ApprovedGateAt(g) ==
    /\ trace[g].ev = "prompt_confirm_tx"
    /\ \E e \in DOMAIN trace :
          e < g /\ trace[e].ev = "pre_submit_dry_run_gas_estimate"
    /\ \E a \in DOMAIN trace :
          a > g /\ trace[a].ev = "answer" /\ trace[a].arg[1] = "y"

\* C12: on the execute path submit is invoked at most once and only after the
\* estimator resolved the weight; with skip-confirm set the gate is never
\* invoked and a finished run whose estimation succeeded has submitted; with
\* skip-confirm unset the gate is invoked exactly once, after the weight is
\* resolved and before submit, and submit is invoked if and only if the gate
\* returned approval.
C12_SubmitAfterConfirmation ==
    opts.execute =>
        /\ Count(SubmitOps) <= 1
        /\ Count({"prompt_confirm_tx"}) <= 1
        /\ opts.skip_confirm => Count({"prompt_confirm_tx"}) = 0
        /\ \A g \in DOMAIN trace :
              trace[g].ev = "prompt_confirm_tx" =>
                  /\ is_some(gas_limit)
                  /\ \E e \in DOMAIN trace :
                        e < g /\ trace[e].ev = "pre_submit_dry_run_gas_estimate"
        /\ \A i \in DOMAIN trace :
              trace[i].ev \in SubmitOps =>
                  /\ is_some(gas_limit)
                  /\ \E e \in DOMAIN trace :
                        e < i /\ trace[e].ev = "pre_submit_dry_run_gas_estimate"
                  /\ ~opts.skip_confirm =>
                        \E g \in DOMAIN trace : g < i /\ ApprovedGateAt(g)
                  /\ \A a \in DOMAIN trace : trace[a].ev = "answer" => a < i
        /\ (pc = "done" /\ is_some(gas_limit)) =>
              IF opts.skip_confirm
              THEN Count(SubmitOps) = 1
              ELSE /\ Count({"prompt_confirm_tx"}) = 1
                   /\ Approved <=> Count(SubmitOps) = 1

C12_Witness ==
    /\ opts.execute /\ ~opts.skip_confirm /\ pc = "done"
    /\ Approved /\ Count(SubmitOps) = 1 /\ Count({"prompt_confirm_tx"}) = 1

\* Entries of the trace that are lines for a human reader.
HumanLines == {"println", "dry_run_result_warning", "contract_exec_result"}

\* C13: in JSON output mode no line for a human reader is ever printed (no
\* dry-running or gas-required notice, no confirmation preview line).
C13_JsonModeHasNoHumanLines ==
    opts.output_json => Count(HumanLines) = 0

\* The request was built: the token metadata query and the client connection
\* succeeded and `handle` went on to its branch.
Built == pc \notin {"start", "queried"} /\ Len(trace) > 2

\* No simulation and no submission is called after entry i of the trace.
NoCallAfter(i) ==
    \A j \in DOMAIN trace :
        j > i => trace[j].ev \notin (SimulateOps \cup SubmitOps)

\* C14: in one invocation the token metadata query comes first, then at most
\* one simulation, then at most one submission; a finished run that built its
\* request made exactly one simulation unless it is on the skip-dry-run path,
\* where it made none; after a simulation that failed (in transport or with a
\* dispatch failure) and after a failed submission no simulation or
\* submission call follows.
C14_OrderedCallsNoRetry ==
    /\ Count({"token_metadata_query"}) <= 1
    /\ Count(SimulateOps) <= 1
    /\ Count(SubmitOps) <= 1
    /\ trace /= <<>> => trace[1].ev = "token_metadata_query"
    /\ \A i, j \in DOMAIN trace :
          (trace[i].ev \in SimulateOps /\ trace[j].ev \in SubmitOps) => i < j
    /\ (pc = "done" /\ Built) =>
          Count(SimulateOps) = IF opts.execute /\ opts.skip_dry_run THEN 0 ELSE 1
    /\ \A i \in DOMAIN trace :
          (trace[i].ev \in SimulateOps /\ (SimulationFailed \/ dry_run = None)) =>
              (pc = "done" /\ NoCallAfter(i))
    /\ \A i \in DOMAIN trace :
          (trace[i].ev \in SubmitOps /\ FailedWith(Msg("submission failed"))) =>
              (pc = "done" /\ i = Len(trace))

C14_Witness ==
    /\ opts.execute /\ ~opts.skip_dry_run /\ pc = "done" /\ Succeeded
    /\ Count({"token_metadata_query"}) = 1
    /\ Count(SimulateOps) = 1 /\ Count(SubmitOps) = 1

\* C15: two runs of the same command on the same request that got the same
\* answers from their collaborators and differ only in the output mode make
\* the same simulate, confirm and submit calls with the same weight and both
\* end in success or both in error.
C15_OutputModeIndependence ==
    (is_some(first) /\ pc = "done" /\ SameAnswers) =>
        /\ CollaboratorCalls = first[1].calls
        /\ gas_limit = first[1].weight
        /\ ret[1].ok = first[1].ok

\* The same without the one case of C7: a call dry run in human mode whose
\* simulation returned a dispatch failure.
C15_ExceptCallDryRunFailure ==
    (is_some(first) /\ pc = "done" /\ SameAnswers
     /\ ~(cmd = "Call" /\ ~opts.execute /\ SimulationFailed)) =>
        /\ CollaboratorCalls = first[1].calls
        /\ gas_limit = first[1].weight
        /\ ret[1].ok = first[1].ok

\* C16: the dispatch-error decoder is invoked at most once, only after a
\* simulation call of this run returned a dispatch failure and on that
\* failure, and never on a run that submits; a run that failed with a local
\* error (missing explicit weight, declined confirmation, transport failure of
\* the token metadata query, the build or the simulation, failed submission)
\* returned it as a plain error without invoking the decoder; after a failed
\* submission nothing is decoded or rendered.
C16_LocalErrorsNotDecoded ==
    /\ Count({"from_dispatch_error"}) <= 1
    /\ \A i \in DOMAIN trace :
          trace[i].ev = "from_dispatch_error" =>
              /\ SimulationFailed
              /\ trace[i].arg = <<dry_run[1].result.v>>
              /\ \E s \in DOMAIN trace : s < i /\ trace[s].ev \in SimulateOps
              /\ Count(SubmitOps) = 0
    /\ (Failed /\ ~SimulationFailed) =>
          /\ Count({"from_dispatch_error"}) = 0
          /\ ret[1].v.variant = "Generic"
    /\ (MissingExplicitWeight /\ Failed /\ Built) => FailedWith(MissingWeightMsg)
    /\ (Declined /\ pc = "done") => FailedWith(Msg("Transaction not submitted"))
    /\ (\/ FailedWith(MissingWeightMsg)
        \/ FailedWith(Msg("Transaction not submitted"))
        \/ FailedWith(Msg("transport failure"))
        \/ FailedWith(Msg("submission failed"))) =>
          Count({"from_dispatch_error"}) = 0
    /\ FailedWith(Msg("submission failed")) =>
          /\ trace[Len(trace)].ev \in SubmitOps
          /\ ~RenderedSubmission

C16_Witness ==
    /\ cmd = "Call" /\ opts.execute /\ ~opts.skip_dry_run /\ ~opts.output_json
    /\ is_some(dry_run) /\ dry_run[1].result.ok
    /\ FailedWith(Msg("submission failed"))
    /\ Count(SubmitOps) = 1 /\ Count({"from_dispatch_error"}) = 0

\* The entries of the trace that print the human line with this label.
Notices(label) ==
    {i \in DOMAIN trace : trace[i].ev = "println" /\ trace[i].arg[1] = label}

\* C17: on the execute path in human mode without skip-dry-run the
\* dry-running notice is printed once, immediately before the one simulation
\* call; the gas-required notice is printed if and only if the simulation
\* returned execution Ok, once, after the simulation call, with its
\* gas_required, and by then the weight is resolved and the gate and the
\* submission have not been reached; after a failed simulation, on the
\* skip-dry-run path and in JSON mode there is no such notice.
C17_EstimatorNotices ==
    /\ \A i \in Notices("Dry-running") :
          /\ opts.execute /\ ~opts.skip_dry_run /\ ~opts.output_json
          /\ i < Len(trace) /\ trace[i + 1].ev \in SimulateOps
    /\ \A i \in Notices("Gas required") :
          /\ opts.execute /\ ~opts.skip_dry_run /\ ~opts.output_json
          /\ is_some(dry_run) /\ dry_run[1].result.ok
          /\ trace[i].arg[2] = dry_run[1].gas_required
          /\ i > 1 /\ trace[i - 1].ev \in SimulateOps
          /\ is_some(gas_limit)
          /\ \A j \in DOMAIN trace :
                trace[j].ev \in {"prompt_confirm_tx"} \cup SubmitOps => i < j
    /\ (opts.execute /\ ~opts.output_json) =>
          /\ \A s \in DOMAIN trace :
                trace[s].ev \in SimulateOps =>
                    (s > 1 /\ (s - 1) \in Notices("Dry-running"))
          /\ Cardinality(Notices("Dry-running")) = Count(SimulateOps)
          /\ Cardinality(Notices("Gas required")) =
                IF is_some(dry_run) /\ dry_run[1].result.ok THEN 1 ELSE 0
    /\ (opts.execute /\ (opts.skip_dry_run \/ opts.output_json)) =>
          Notices("Dry-running") \cup Notices("Gas required") = {}

C17_Witness ==
    /\ cmd = "Call" /\ opts.execute /\ ~opts.skip_dry_run /\ ~opts.output_json
    /\ pc = "estimated" /\ is_some(dry_run) /\ dry_run[1].result.ok
    /\ Cardinality(Notices("Dry-running")) = 1
    /\ Cardinality(Notices("Gas required")) = 1

\* C18: in human mode a finished dry-run-only run whose simulation call
\* returned has printed the cautionary dry-run note exactly once, whether the
\* execution of the simulation is Ok or Err; the note is never printed in
\* JSON mode and never on the execute path.
C18_DryRunNoteOnce ==
    /\ (~opts.execute /\ ~opts.output_json /\ pc = "done" /\ is_some(dry_run)) =>
          Count({"dry_run_result_warning"}) = 1
    /\ (opts.execute \/ opts.output_json) => Count({"dry_run_result_warning"}) = 0

\* What the code does: the note is printed once, as the last line, exactly by
\* the human dry-run-only runs that reported an execution that is Ok.
C18_NoteOnlyAfterOkReport ==
    /\ Count({"dry_run_result_warning"}) <= 1
    /\ Count({"dry_run_result_warning"}) = 1 <=>
          /\ ~opts.execute /\ ~opts.output_json /\ pc = "done" /\ Succeeded
          /\ is_some(dry_run) /\ dry_run[1].result.ok
          /\ trace[Len(trace)].ev = "dry_run_result_warning"

\* The lines shown by the gate invoked at entry g of the trace: the entries
\* between the invocation and the answer of the user.
PreviewOf(g) ==
    LET a == CHOOSE a \in DOMAIN trace :
                 /\ a > g /\ trace[a].ev = "answer"
                 /\ \A k \in (g + 1)..(a - 1) : trace[k].ev /= "answer"
    IN  SubSeq(trace, g + 1, a - 1)

\* Line k of the preview is the human line `label: value`.
Shows(preview, k, label, value) ==
    /\ k \in DOMAIN preview
    /\ preview[k].ev = "println"
    /\ preview[k].arg[1] = label
    /\ preview[k].arg[2] = value

\* C19: whenever Instantiate invokes the confirmation gate, the preview shows
\* the constructor, the arguments and the resolved gas limit, in this order,
\* followed by the code hash if the code source is an existing code hash, and
\* by nothing if it is code to upload.
C19_InstantiatePreview ==
    cmd = "Instantiate" =>
        \A g \in DOMAIN trace :
            trace[g].ev = "prompt_confirm_tx" =>
                LET preview == PreviewOf(g)
                IN  /\ is_some(gas_limit)
                    /\ Shows(preview, 1, "Constructor", "constructor")
                    /\ Shows(preview, 2, "Args", "args")
                    /\ Shows(preview, 3, "Gas limit", gas_limit[1])
                    /\ IF opts.code = "Existing"
                       THEN Len(preview) = 4 /\ Shows(preview, 4, "Code hash", CodeHash)
                       ELSE Len(preview) = 3

C19_Witness ==
    /\ cmd = "Instantiate" /\ opts.code = "Existing" /\ opts.execute
    /\ pc = "confirmed" /\ Count({"prompt_confirm_tx"}) = 1
    /\ \E i \in DOMAIN trace :
          trace[i].ev = "println" /\ trace[i].arg[1] = "Code hash"

\* The weight handed to the submission at entry i of the trace is resolved,
\* is the weight the estimator returned, and is the gas limit of every
\* preview shown before it.
SubmitsResolvedWeight(i) ==
    LET limit == trace[i].arg[1]
    IN  /\ is_some(limit)
        /\ limit[1] \in Weights
        /\ is_some(gas_limit) /\ limit = gas_limit
        /\ \A g \in DOMAIN trace :
              trace[g].ev = "prompt_confirm_tx" =>
                  /\ g < i
                  /\ \E k \in (g + 1)..(i - 1) :
                        /\ trace[k].ev = "println" /\ trace[k].arg[1] = "Gas limit"
                        /\ trace[k].arg[2] = limit[1]
        /\ \A k \in Notices("Gas limit") : trace[k].arg[2] = limit[1]

\* C20: every submission receives a weight with both components present,
\* equal to the weight the estimator returned in this run and to the gas
\* limit shown by the confirmation preview when the gate ran; and once the
\* estimator has returned a weight no step of the run changes it.
C20_SubmittedWeightIsResolved ==
    /\ [](\A i \in DOMAIN trace : trace[i].ev \in SubmitOps => SubmitsResolvedWeight(i))
    /\ [][is_some(gas_limit) => gas_limit' = gas_limit]_vars

C20_Witness ==
    /\ cmd = "Instantiate" /\ opts.execute /\ ~opts.skip_dry_run /\ ~opts.skip_confirm
    /\ opts.gas_limit = Some(1) /\ opts.proof_size = None
    /\ pc = "done" /\ Succeeded
    /\ Count({"prompt_confirm_tx"}) = 1
    /\ \E i \in DOMAIN trace :
          trace[i].ev = "instantiate" /\ SubmitsResolvedWeight(i)

\* The user gave both components of the weight.
ExplicitWeight == is_some(opts.gas_limit) /\ is_some(opts.proof_size)

\* C21: on the execute path without skip-dry-run and with both the explicit
\* gas and the explicit proof size given, the estimator still makes the
\* simulation call, before anything else it does; if the execution of the
\* simulation is Err the run ends in an error without gate or submission; if
\* it is Ok the resolved weight, and the weight of every submission, is
\* exactly the pair the user gave, whatever gas_required is.
C21_ExplicitWeightStillSimulates ==
    (opts.execute /\ ~opts.skip_dry_run /\ ExplicitWeight) =>
        /\ Count({"pre_submit_dry_run_gas_estimate"}) > 0 => Count(SimulateOps) = 1
        /\ \A i \in DOMAIN trace :
              trace[i].ev \in SubmitOps \cup {"prompt_confirm_tx"} =>
                  \E s \in DOMAIN trace : s < i /\ trace[s].ev \in SimulateOps
        /\ SimulationFailed =>
              /\ pc = "done" /\ Failed
              /\ gas_limit = None
              /\ Count({"prompt_confirm_tx"}) = 0
              /\ Count(SubmitOps) = 0
        /\ (is_some(dry_run) /\ dry_run[1].result.ok) =>
              /\ gas_limit = Some(Weight_from_parts(opts.gas_limit[1], opts.proof_size[1]))
              /\ \A i \in DOMAIN trace :
                    trace[i].ev \in SubmitOps =>
                        trace[i].arg[1] =
                            Some(Weight_from_parts(opts.gas_limit[1], opts.proof_size[1]))

C21_Witness ==
    /\ cmd = "Call" /\ opts.execute /\ ~opts.skip_dry_run
    /\ opts.gas_limit = Some(1) /\ opts.proof_size = Some(1)
    /\ is_some(dry_run) /\ dry_run[1].result.ok
    /\ dry_run[1].gas_required = Weight_from_parts(0, 0)
    /\ \E i \in DOMAIN trace :
          trace[i].ev = "call" /\ trace[i].arg[1] = Some(Weight_from_parts(1, 1))

\* The pre-submission simulation of this run returned an execution that is
\* Ok and reverted.
RevertedEstimate ==
    /\ opts.execute /\ ~opts.skip_dry_run
    /\ is_some(dry_run) /\ dry_run[1].result.ok /\ dry_run[1].result.v.reverted

\* C22: after a pre-submission simulation whose execution is Ok and reverted
\* the estimator has returned the weight it returns for a non-reverted one
\* (explicit component if given, else the component of gas_required), the
\* dispatch-error decoder was not invoked, and the run goes on as usual: a
\* finished run has submitted that weight if skip-confirm is set, and
\* otherwise has asked at the gate and submitted if and only if the user
\* approved; a failure of such a run is a decline or a failure of the
\* submission or of its rendering, never the pre-submission failure.
C22_RevertedEstimateProceeds ==
    RevertedEstimate =>
        /\ gas_limit = Some(Weight_from_parts(
                             unwrap_or_else(opts.gas_limit, dry_run[1].gas_required.ref_time),
                             unwrap_or_else(opts.proof_size, dry_run[1].gas_required.proof_size)))
        /\ Count({"from_dispatch_error"}) = 0
        /\ ~FailedWith(PreSubmitFailedMsg)
        /\ pc \in {"estimated", "confirmed", "done"}
        /\ \A i \in DOMAIN trace :
              trace[i].ev \in SubmitOps => trace[i].arg[1] = gas_limit
        /\ pc = "done" =>
              /\ IF opts.skip_confirm
                 THEN Count(SubmitOps) = 1
                 ELSE /\ Count({"prompt_confirm_tx"}) = 1
                      /\ Approved <=> Count(SubmitOps) = 1
              /\ Failed => (Declined \/ Count(SubmitOps) = 1)

C22_Witness ==
    /\ cmd = "Instantiate" /\ RevertedEstimate /\ ~opts.skip_confirm
    /\ pc = "done" /\ Succeeded /\ Approved /\ Count(SubmitOps) = 1

\* The simulation of a dry-run-only run was reported: something was printed
\* after the simulation call, or the decoded dispatch error was returned.
ReportedDryRun ==
    \/ \E s, j \in DOMAIN trace :
          /\ trace[s].ev \in SimulateOps /\ j > s
          /\ trace[j].ev \in {"println", "println_json"}
    \/ /\ Failed /\ SimulationFailed
       /\ ret[1].v = ErrorVariant_Module(dry_run[1].result.v)

\* C23: with execute unset and skip-dry-run set the estimator is never
\* invoked and the missing-explicit-weight error is never raised, also when
\* the explicit gas or proof size is absent; a finished run that built its
\* request made exactly one simulation, and if the simulation call returned
\* the run reported it or failed in decoding or rendering it; no gate, no
\* submission.
C23_SkipDryRunNeedsExecute ==
    (~opts.execute /\ opts.skip_dry_run) =>
        /\ Count({"pre_submit_dry_run_gas_estimate"}) = 0
        /\ ~FailedWith(MissingWeightMsg)
        /\ gas_limit = None
        /\ Count({"prompt_confirm_tx"}) = 0 /\ Count(SubmitOps) = 0
        /\ Count(SimulateOps) <= 1
        /\ (pc = "done" /\ Built) => Count(SimulateOps) = 1
        /\ (pc = "done" /\ is_some(dry_run)) =>
              \/ ReportedDryRun
              \/ FailedWith(Msg("Failed to decode return value"))
              \/ FailedWith(Msg("dispatch error decode failed"))
              \/ FailedWith(Msg("serialization failed"))

C23_Witness ==
    /\ cmd = "Instantiate" /\ ~opts.execute /\ opts.skip_dry_run
    /\ opts.gas_limit = None /\ opts.proof_size = None
    /\ pc = "done" /\ Succeeded /\ Count(SimulateOps) = 1 /\ ReportedDryRun

====
